---- MODULE Spec2Model ----
(***************************************************************************)
(* Model of the quiz-buzzer server's real-time session engine:             *)
(*   - GameService (src/server/services/game.service.js): one active game, *)
(*     its question runtime state, answers, buzz arbitration and scoring;  *)
(*   - WebSocketServer (src/unnamed/part_000, lines 1-849): the connection *)
(*     registry, the router, the console/buzzer handlers and the jingle    *)
(*     streamer.                                                           *)
(* Node runs every handler and timer callback to completion on one thread, *)
(* so each handler is one atomic action.                                   *)
(***************************************************************************)
EXTENDS Integers, Sequences, FiniteSets, TLC

\* ------------------------------------------------------------------ bounds
MaxTicks == 2          \* the clock stops after this many ticks
TickMs == 100          \* milliseconds per clock tick
MaxBuzzes == 3         \* cap on the length of currentQuestionBuzzes
MaxTimers == 2         \* cap on the number of pending evaluation timers
MaxAnswers == 2        \* cap on the answers scored per player
Epoch == 1000          \* the clock's value at the last question dispatch
IdentStepMs == 10000   \* step of the clock while identification timers are pending
MaxConnectSteps == 2   \* connections are accepted during this many such steps
MaxHeartbeats == 2     \* heartbeat ticks counted per transport
FarAhead == 500000     \* how far ahead of the server clock a synced timestamp may be
JingleFileSize == 10000 \* bytes in the file of the jingle that can be played

\* ------------------------------------------------------- program constants
EvalWindowMs == 200        \* setTimeout delay of the evaluation timer
MaxResponseTime == 120000  \* upper clamp of recordAnswer
DefaultPoints == 10        \* question.points || 10
CloseDuplicate == 4002     \* close code of a duplicate BUZZER_REGISTER
CloseAdmin == 4003         \* close code of BUZZER_DISCONNECT
ChunkSize == 4096          \* highWaterMark of the jingle read stream
IdentificationTimeoutMs == 30000  \* delay of the identification timer
CloseIdentification == 4001       \* close code of the identification timeout
MaxBuzzersAnnounced == 10         \* config.maxBuzzers of the CONNECTED message

\* ---------------------------------------------------------------- universe
BuzzerIDs == {"B1", "B2"}
Transports == {"t1", "t2", "t3"}
NoWs == "none"
NoBuzzer == "none"
GameId == "g"
UnknownGame == "g?"
GameIds == {GameId, UnknownGame}

\* The questions table: id -> row.  "q1" is a BUZZER question, "q2" an MCQ
\* whose correct answer is 1; "q9" is an id the table does not hold.
QuestionsTable ==
  [q \in {"q1", "q2"} |->
     IF q = "q1" THEN [id |-> "q1", type |-> "BUZZER", points |-> 10, correct_answer |-> 0]
                 ELSE [id |-> "q2", type |-> "MCQ", points |-> 20, correct_answer |-> 1]]
UnknownQuestion == "q9"
QuestionIdsSent == DOMAIN QuestionsTable \cup {UnknownQuestion}
NoQuestion == [id |-> "none", type |-> "none", points |-> 0, correct_answer |-> 0]
GameQuestionIds == <<"q1", "q2">>
Answers == {1, 2}

\* The jingles table and the files behind it: jingle 1 has a file of
\* JingleFileSize bytes, the file of jingle 2 is missing, jingle 9 is not in
\* the table.
JinglesTable ==
  [j \in {1, 2} |-> [id |-> j, fileExists |-> (j = 1),
                     fileSize |-> IF j = 1 THEN JingleFileSize ELSE 0]]
JingleIdsSent == DOMAIN JinglesTable \cup {9}

VARIABLES
  now,                \* Date.now(), in milliseconds
  activeGames,        \* set of game ids of gameService.activeGames
  game,               \* the game state of GameId
  timers,             \* pending evaluation-timer callbacks, in arming order
  winnersSinceUnlock, \* history: onBuzzWinner calls since the last unlock event
  written,            \* the rows the last handler inserted into game_results
  ws,                 \* the transports: readyState and the _fields set on them
  angularClient,      \* this.angularClient
  buzzerClients,      \* this.buzzerClients: buzzerID -> [ws, playerNumber]
  activeJingleStreams,\* this.activeJingleStreams
  streams,            \* the read streams of handleJinglePlay, per buzzerID
  sent,               \* the frames the last handler sent, in order
  last                \* what the last handler was and what it returned

vars == <<now, activeGames, game, timers, winnersSinceUnlock, written, ws, angularClient,
          buzzerClients, activeJingleStreams, streams, sent, last>>

gameVars == <<activeGames, game, timers, winnersSinceUnlock>>
connVars == <<ws, angularClient, buzzerClients>>
jingleVars == <<activeJingleStreams, streams>>

\* ------------------------------------------------------------------ helpers
Msg(to, type, buzzerID, questionId, val) ==
  [to |-> to, type |-> type, buzzerID |-> buzzerID, questionId |-> questionId, val |-> val]


\* ============================================================ GameService
Player0 == [present |-> FALSE, score |-> 0, correctAnswers |-> 0, totalAnswers |-> 0]
Answer0 == [present |-> FALSE, answer |-> 0, isCorrect |-> FALSE, points |-> 0, responseTime |-> 0]

\* The gameState object of createGame.  A Map is a function over BuzzerIDs with
\* a `present` flag; questionStartTime = 0 is null; currentQuestionBuzzes is
\* undefined until buzzesDefined; buzzEvaluationTimer is TRUE while it holds a
\* timer handle.  The response-time statistics of a player are left out.
\* winnerExcluded is history: since the buzz tracking of the question began,
\* excludePlayer was applied to the buzzer that was the current winner.
\* answeredSinceDispatch is history: the <<buzzerID, questionId>> of the
\* answers recordAnswer has recorded since getCurrentQuestion last reset the
\* question state; questionDispatched is history: it has reset it once.
NewGame ==
  [status |-> "created", currentQuestionIndex |-> -1, questionStartTime |-> 0,
   players |-> [b \in BuzzerIDs |-> Player0],
   currentQuestionAnswers |-> [b \in BuzzerIDs |-> Answer0],
   buzzesDefined |-> FALSE, currentQuestionBuzzes |-> <<>>,
   currentQuestionExcluded |-> {}, currentQuestionWinner |-> NoBuzzer,
   buzzerLocked |-> FALSE, buzzEvaluationTimer |-> FALSE,
   winnerExcluded |-> FALSE, answeredSinceDispatch |-> {},
   questionDispatched |-> FALSE]

\* What an engine call hands back to its caller.
Ret0 == [ignored |-> FALSE, duplicate |-> FALSE, threw |-> FALSE, isCorrect |-> FALSE,
         points |-> 0, responseTime |-> 0, fired |-> FALSE, found |-> FALSE,
         stale |-> FALSE, known |-> FALSE]
Threw == [Ret0 EXCEPT !.threw = TRUE]

\* timestamp_synced_action arrives in a JSON frame and is used unvalidated: it
\* is a number, or absent (0), or some other truthy JSON value.  NonNumeric
\* stands for a value whose conversion to a number fails (the string "abc", an
\* object), NaN for JavaScript's NaN; both lie below every number the
\* timestamps of the model can yield.
NaN == 0 - FarAhead * Epoch
NonNumeric == NaN - 1

\* The conversion the - operator applies to its operands.
ToNumber(v) == IF v = NonNumeric THEN NaN ELSE v

\* a - b: NaN as soon as one operand is.
Minus(a, b) ==
  IF ToNumber(a) = NaN \/ ToNumber(b) = NaN THEN NaN ELSE ToNumber(a) - ToNumber(b)

\* a < b (and b > a): false as soon as one operand is NaN.
LessThan(a, b) == a # NaN /\ b # NaN /\ a < b

\* responseTime before clamping: the synced timestamp of the buzzer when given
\* (0 = absent), else the server clock; 0 when the question has no start time.
RawResponseTime(g, synced, t) ==
  IF synced # 0 /\ g.questionStartTime # 0 THEN Minus(synced, g.questionStartTime)
  ELSE IF g.questionStartTime # 0 THEN t - g.questionStartTime
  ELSE 0

\* if (responseTime < 0) responseTime = 0;
ClampLow(x) == IF LessThan(x, 0) THEN 0 ELSE x

\* ... then if (responseTime > 120000) responseTime = 120000;
ClampAnswer(x) ==
  IF LessThan(MaxResponseTime, ClampLow(x)) THEN MaxResponseTime ELSE ClampLow(x)

QuestionPoints(question) == IF question.points # 0 THEN question.points ELSE DefaultPoints

\* A score update that counts an answer in totalAnswers only when it is wrong.
UpdatePlayerSplitsCounts(g, buzzerID, points, isCorrect) ==
  IF g.players[buzzerID].present
  THEN [g EXCEPT !.players[buzzerID].score = @ + points,
                 !.players[buzzerID].totalAnswers = IF isCorrect THEN @ ELSE @ + 1,
                 !.players[buzzerID].correctAnswers = IF isCorrect THEN @ + 1 ELSE @]
  ELSE g

\* player.score += points; player.totalAnswers += 1; correctAnswers += 1 if correct
UpdatePlayer(g, buzzerID, points, isCorrect) ==
  IF g.players[buzzerID].present
  THEN [g EXCEPT !.players[buzzerID].score = @ + points,
                 !.players[buzzerID].totalAnswers = @ + 1,
                 !.players[buzzerID].correctAnswers = IF isCorrect THEN @ + 1 ELSE @]
  ELSE g

ResultRow(questionId, buzzerID, isCorrect, responseTime, points) ==
  [questionId |-> questionId, buzzerID |-> buzzerID, isCorrect |-> isCorrect,
   responseTime |-> responseTime, points |-> points]

\* recordAnswer past its duplicate check: lookup, verdict, clamp, store, score.
RecordAnswerBody(g, questionId, buzzerID, answer, synced, t) ==
  IF questionId \notin DOMAIN QuestionsTable
  THEN [game |-> g, rows |-> <<>>, ret |-> Threw]
  ELSE LET question == QuestionsTable[questionId]
           isCorrect == IF question.type = "MCQ" THEN answer = question.correct_answer
                        ELSE \A b \in BuzzerIDs : ~g.currentQuestionAnswers[b].present
           points == IF isCorrect THEN QuestionPoints(question) ELSE 0
           responseTime == ClampAnswer(RawResponseTime(g, synced, t))
           g1 == [g EXCEPT !.currentQuestionAnswers[buzzerID] =
                     [present |-> TRUE, answer |-> answer, isCorrect |-> isCorrect,
                      points |-> points, responseTime |-> responseTime],
                           !.answeredSinceDispatch = @ \cup {<<buzzerID, questionId>>}]
       IN [game |-> UpdatePlayer(g1, buzzerID, points, isCorrect),
           rows |-> <<ResultRow(questionId, buzzerID, isCorrect, responseTime, points)>>,
           ret |-> [Ret0 EXCEPT !.isCorrect = isCorrect, !.points = points,
                                !.responseTime = responseTime]]

\* A recordAnswer that lost its duplicate check.
RecordAnswerNoDuplicateCheck(g, questionId, buzzerID, answer, synced, t) ==
  RecordAnswerBody(g, questionId, buzzerID, answer, synced, t)

\* recordAnswer(gameId, questionId, buzzerID, answer, timestamps), gameId known
RecordAnswer(g, questionId, buzzerID, answer, synced, t) ==
  IF g.currentQuestionAnswers[buzzerID].present
  THEN [game |-> g, rows |-> <<>>, ret |-> [Ret0 EXCEPT !.duplicate = TRUE]]
  ELSE RecordAnswerBody(g, questionId, buzzerID, answer, synced, t)

\* A recordBuzz that never finds an earlier unprocessed buzz.
AlreadyBuzzedNever(g, buzzerID) == FALSE

\* game.currentQuestionBuzzes.find(b => b.buzzerID === buzzerID && !b.processed)
AlreadyBuzzed(g, buzzerID) ==
  \E i \in DOMAIN g.currentQuestionBuzzes :
     /\ g.currentQuestionBuzzes[i].buzzerID = buzzerID
     /\ ~g.currentQuestionBuzzes[i].processed

\* The lazy initialisation at the top of recordBuzz.
InitBuzzTracking(g) ==
  IF ~g.buzzesDefined
  THEN [g EXCEPT !.buzzesDefined = TRUE, !.currentQuestionBuzzes = <<>>,
                 !.currentQuestionExcluded = {}, !.currentQuestionWinner = NoBuzzer,
                 !.buzzerLocked = FALSE, !.winnerExcluded = FALSE]
  ELSE g

\* recordBuzz(gameId, questionId, buzzerID, timestamps), gameId known.
\* arm = TRUE when the call passed a callback to setTimeout.
RecordBuzz(g0, questionId, buzzerID, synced, t) ==
  LET g == InitBuzzTracking(g0)
      ignore == [game |-> g, arm |-> FALSE, ret |-> [Ret0 EXCEPT !.ignored = TRUE]]
  IN IF buzzerID \in g.currentQuestionExcluded THEN ignore
     ELSE IF AlreadyBuzzed(g, buzzerID) THEN ignore
     ELSE IF g.buzzerLocked THEN ignore
     ELSE LET responseTime == ClampLow(RawResponseTime(g, synced, t))
              buzzEntry == [buzzerID |-> buzzerID, responseTime |-> responseTime,
                            receivedAt |-> t, processed |-> FALSE]
              g1 == [g EXCEPT !.currentQuestionBuzzes = Append(@, buzzEntry)]
          IN [game |-> [g1 EXCEPT !.buzzEvaluationTimer = TRUE],
              arm |-> ~g.buzzEvaluationTimer,
              ret |-> [Ret0 EXCEPT !.responseTime = responseTime]]

\* Indices of the entries evaluateBuzzes filters into pendingBuzzes, in list order.
PendingIndices(g) ==
  {i \in DOMAIN g.currentQuestionBuzzes :
     /\ ~g.currentQuestionBuzzes[i].processed
     /\ g.currentQuestionBuzzes[i].buzzerID \notin g.currentQuestionExcluded}

PendingBuzzes(g) ==
  SelectSeq(g.currentQuestionBuzzes,
            LAMBDA b : ~b.processed /\ b.buzzerID \notin g.currentQuestionExcluded)

\* Array.prototype.sort with (a, b) => a.responseTime - b.responseTime: a stable
\* sort, here by insertion.
RECURSIVE InsertSorted(_, _)
InsertSorted(sorted, e) ==
  IF sorted = <<>> THEN <<e>>
  ELSE IF Head(sorted).responseTime <= e.responseTime
       THEN <<Head(sorted)>> \o InsertSorted(Tail(sorted), e)
       ELSE <<e>> \o sorted

RECURSIVE SortByResponseTime(_)
SortByResponseTime(s) ==
  IF s = <<>> THEN <<>>
  ELSE InsertSorted(SortByResponseTime(SubSeq(s, 1, Len(s) - 1)), s[Len(s)])

\* A winner taken without sorting: the first frame received.
WinnerFirstReceived(pendingBuzzes) == Head(pendingBuzzes)

\* pendingBuzzes.sort(...); const winner = pendingBuzzes[0];
Winner(pendingBuzzes) == Head(SortByResponseTime(pendingBuzzes))

\* An evaluateBuzzes that marks the winner's entry processed and leaves the
\* other pending entries as they are.
EvaluateBuzzesMarksWinnerOnly(g) ==
  IF PendingIndices(g) = {}
  THEN [game |-> g, fired |-> FALSE, winner |-> NoBuzzer, responseTime |-> 0]
  ELSE LET winner == Winner(PendingBuzzes(g))
           w == CHOOSE i \in PendingIndices(g) :
                   /\ g.currentQuestionBuzzes[i] = winner
                   /\ \A j \in PendingIndices(g) :
                         g.currentQuestionBuzzes[j] = winner => i <= j
       IN [game |-> [g EXCEPT !.currentQuestionBuzzes[w].processed = TRUE,
                              !.currentQuestionWinner = winner.buzzerID,
                              !.buzzerLocked = TRUE],
           fired |-> TRUE, winner |-> winner.buzzerID, responseTime |-> winner.responseTime]

\* evaluateBuzzes past its guard: filter, sort, elect, mark, lock.
EvaluateBuzzesBody(g) ==
  IF PendingIndices(g) = {}
  THEN [game |-> g, fired |-> FALSE, winner |-> NoBuzzer, responseTime |-> 0]
  ELSE LET winner == Winner(PendingBuzzes(g))
           marked == [i \in DOMAIN g.currentQuestionBuzzes |->
                        IF i \in PendingIndices(g)
                        THEN [g.currentQuestionBuzzes[i] EXCEPT !.processed = TRUE]
                        ELSE g.currentQuestionBuzzes[i]]
       IN [game |-> [g EXCEPT !.currentQuestionBuzzes = marked,
                              !.currentQuestionWinner = winner.buzzerID,
                              !.buzzerLocked = TRUE],
           fired |-> TRUE, winner |-> winner.buzzerID, responseTime |-> winner.responseTime]

\* An evaluateBuzzes that elects a winner and leaves the buzzers unlocked.
EvaluateBuzzesForgetsLock(g) ==
  IF ~g.buzzesDefined \/ g.buzzerLocked
  THEN [game |-> g, fired |-> FALSE, winner |-> NoBuzzer, responseTime |-> 0]
  ELSE [EvaluateBuzzesBody(g) EXCEPT !.game.buzzerLocked = FALSE]

\* An evaluateBuzzes that elects nobody once a buzzer has been excluded.
EvaluateBuzzesOnlyFirst(g) ==
  IF ~g.buzzesDefined \/ g.buzzerLocked \/ g.currentQuestionExcluded # {}
  THEN [game |-> g, fired |-> FALSE, winner |-> NoBuzzer, responseTime |-> 0]
  ELSE EvaluateBuzzesBody(g)

\* evaluateBuzzes(gameId, questionId); fired = TRUE when onBuzzWinner was called.
EvaluateBuzzes(g) ==
  IF ~g.buzzesDefined \/ g.buzzerLocked
  THEN [game |-> g, fired |-> FALSE, winner |-> NoBuzzer, responseTime |-> 0]
  ELSE EvaluateBuzzesBody(g)

\* game.currentQuestionBuzzes.find(b => b.buzzerID === buzzerID): the first entry
FindBuzz(g, buzzerID) ==
  LET idx == {i \in DOMAIN g.currentQuestionBuzzes :
                g.currentQuestionBuzzes[i].buzzerID = buzzerID}
  IN IF ~g.buzzesDefined \/ idx = {} THEN 0
     ELSE CHOOSE i \in idx : \A j \in idx : i <= j

\* validateBuzz(gameId, questionId, buzzerID, isCorrect), gameId known
ValidateBuzz(g, questionId, buzzerID, isCorrect) ==
  LET points == IF ~isCorrect THEN 0
                ELSE IF questionId \in DOMAIN QuestionsTable
                     THEN QuestionPoints(QuestionsTable[questionId])
                     ELSE DefaultPoints
      i == FindBuzz(g, buzzerID)
      responseTime == IF i = 0 THEN 0 ELSE g.currentQuestionBuzzes[i].responseTime
  IN [game |-> UpdatePlayer(g, buzzerID, points, isCorrect),
      rows |-> <<ResultRow(questionId, buzzerID, isCorrect, responseTime, points)>>,
      ret |-> [Ret0 EXCEPT !.isCorrect = isCorrect, !.points = points,
                           !.responseTime = responseTime]]

\* An excludePlayer that clears the winner and leaves the buzzers locked.
ExcludePlayerKeepsLock(g, buzzerID) ==
  [g EXCEPT !.currentQuestionExcluded = @ \cup {buzzerID},
            !.currentQuestionWinner = NoBuzzer,
            !.winnerExcluded = @ \/ g.currentQuestionWinner = buzzerID]

\* excludePlayer(gameId, questionId, buzzerID), gameId known
ExcludePlayer(g, buzzerID) ==
  [g EXCEPT !.currentQuestionExcluded = @ \cup {buzzerID},
            !.buzzerLocked = FALSE,
            !.currentQuestionWinner = NoBuzzer,
            !.winnerExcluded = @ \/ g.currentQuestionWinner = buzzerID]

\* A getExcludedPlayers that reports nobody.
GetExcludedPlayersNone(g) == {}

\* getExcludedPlayers(gameId, questionId), gameId known
GetExcludedPlayers(g) == g.currentQuestionExcluded

\* The reset of the question runtime state in getCurrentQuestion.
ResetQuestionState(g, t) ==
  [g EXCEPT !.questionStartTime = t,
            !.currentQuestionAnswers = [b \in BuzzerIDs |-> Answer0],
            !.buzzesDefined = TRUE, !.currentQuestionBuzzes = <<>>,
            !.currentQuestionExcluded = {}, !.currentQuestionWinner = NoBuzzer,
            !.buzzerLocked = FALSE, !.buzzEvaluationTimer = FALSE,
            !.winnerExcluded = FALSE, !.answeredSinceDispatch = {},
            !.questionDispatched = TRUE]

\* getCurrentQuestion(gameId), gameId known: null when the index is out of range
GetCurrentQuestion(g, t) ==
  IF g.currentQuestionIndex < 0 \/ g.currentQuestionIndex >= Len(GameQuestionIds)
  THEN [game |-> g, question |-> NoQuestion, reset |-> FALSE]
  ELSE [game |-> ResetQuestionState(g, t),
        question |-> QuestionsTable[GameQuestionIds[g.currentQuestionIndex + 1]],
        reset |-> TRUE]

\* Every time the engine computes is a difference of two instants, so the clock
\* can be re-based: when a question is dispatched the model shifts all instants
\* by the same amount so that the dispatch happens at Epoch.  A timer that is
\* already due stays due.
Shift(reset, t) == IF reset THEN t - Epoch ELSE 0

RebaseGame(g, shift) ==
  [g EXCEPT !.questionStartTime = IF @ = 0 THEN 0 ELSE @ - shift,
            !.currentQuestionBuzzes =
               [i \in DOMAIN @ |-> [@[i] EXCEPT !.receivedAt = @ - shift]]]

RebaseTimers(ts, shift) ==
  [i \in DOMAIN ts |->
     [ts[i] EXCEPT !.fireAt = IF @ - shift < Epoch THEN Epoch ELSE @ - shift]]

\* History: a timer still pending when the question state is reset was armed
\* for the previous dispatch.
MarkStale(ts, reset) ==
  [i \in DOMAIN ts |-> [ts[i] EXCEPT !.stale = @ \/ reset]]

\* ======================================================== WebSocketServer
\* A transport as the server sees it: readyState and the fields the server sets
\* on the ws object.  CLOSED also stands for a transport not yet accepted.
\* identificationTimeout is the instant its identification timer is due
\* (0 = none pending), isAlive the heartbeat's flag, terminated says that
\* terminate() was called on it.
\* jingleStarted is history: the transport was sent a JINGLE_START and no
\* JINGLE_END or JINGLE_ERROR since.  acceptedAt, heartbeats and ponged are
\* history too: the instant of the accept, the heartbeat ticks the transport
\* went through (counted up to MaxHeartbeats), a pong received since the last
\* of them.
FreshWs == [readyState |-> "CLOSED", identified |-> FALSE, clientType |-> "none",
            buzzerID |-> NoBuzzer, closeCode |-> 0, jingleStarted |-> FALSE,
            identificationTimeout |-> 0, isAlive |-> FALSE, terminated |-> FALSE,
            acceptedAt |-> 0, heartbeats |-> 0, ponged |-> FALSE]

IsOpen(t) == t # NoWs /\ ws[t].readyState = "OPEN"

\* this.buzzerClients is a Map: a sequence of entries in insertion order.
Has(clients, buzzerID) == \E i \in DOMAIN clients : clients[i].id = buzzerID

Get(clients, buzzerID) == clients[CHOOSE i \in DOMAIN clients : clients[i].id = buzzerID]

Delete(clients, buzzerID) == SelectSeq(clients, LAMBDA e : e.id # buzzerID)

RegisteredIDs == {buzzerClients[i].id : i \in DOMAIN buzzerClients}

\* from is the transport whose frame the step handled (for buzzer frames).
Last(op, buzzerID, questionId, ret) ==
  [op |-> op, buzzerID |-> buzzerID, questionId |-> questionId, ret |-> ret,
   from |-> NoWs]

LastFrom(t, op, buzzerID, questionId, ret) ==
  [Last(op, buzzerID, questionId, ret) EXCEPT !.from = t]

\* sendToAngular(type, payload): the frame, or nothing when no console is open
SendToAngular(type, buzzerID, questionId, val) ==
  IF IsOpen(angularClient)
  THEN <<Msg(angularClient, type, buzzerID, questionId, val)>>
  ELSE <<>>

\* A sendToBuzzer that does not look at the readyState of the transport.
SendToBuzzerUnchecked(buzzerID, type, questionId, val) ==
  IF Has(buzzerClients, buzzerID)
  THEN <<Msg(Get(buzzerClients, buzzerID).ws, type, buzzerID, questionId, val)>>
  ELSE <<>>

\* sendToBuzzer(buzzerID, type, payload): the frame goes to the registry's
\* transport for buzzerID, or nowhere
SendToBuzzer(buzzerID, type, questionId, val) ==
  IF Has(buzzerClients, buzzerID) /\ IsOpen(Get(buzzerClients, buzzerID).ws)
  THEN <<Msg(Get(buzzerClients, buzzerID).ws, type, buzzerID, questionId, val)>>
  ELSE <<>>

\* this.buzzerClients.forEach(... sendToBuzzer(id, typeOf(id), ...))
RECURSIVE ForEachBuzzer(_, _, _, _)
ForEachBuzzer(clients, typeOf(_), questionId, val) ==
  IF clients = <<>> THEN <<>>
  ELSE SendToBuzzer(Head(clients).id, typeOf(Head(clients).id), questionId, val)
       \o ForEachBuzzer(Tail(clients), typeOf, questionId, val)

\* broadcastToBuzzers(type, payload)
BroadcastToBuzzers(type, questionId, val) ==
  ForEachBuzzer(buzzerClients, LAMBDA id : type, questionId, val)

\* The onBuzzWinner callback set in setDependencies.
OnBuzzWinner(questionId, winner, responseTime) ==
  BroadcastToBuzzers("BUZZER_LOCKED", questionId, 0)
  \o SendToAngular("BUZZ_WINNER", winner, questionId, responseTime)

\* A message of an identified console / buzzer reaches its handler.
FromConsole(t) ==
  ws[t].readyState = "OPEN" /\ ws[t].identified /\ ws[t].clientType = "angular"

FromBuzzer(t) ==
  ws[t].readyState = "OPEN" /\ ws[t].identified /\ ws[t].clientType = "buzzer"

\* ------------------------------------------------------------ HTTP routes
\* POST /api/games -> createGame
CreateGame ==
  /\ GameId \notin activeGames
  /\ activeGames' = activeGames \cup {GameId}
  /\ game' = NewGame
  /\ sent' = <<>>
  /\ last' = Last("createGame", NoBuzzer, "none", Ret0)
  /\ written' = <<>>
  /\ UNCHANGED <<now, timers, winnersSinceUnlock, connVars, jingleVars>>

\* POST /api/games/:id/start -> startGame
StartGame ==
  /\ GameId \in activeGames
  /\ IF game.status # "created"
     THEN /\ game' = game
          /\ last' = Last("startGame", NoBuzzer, "none", Threw)
     ELSE /\ game' = [game EXCEPT !.status = "started", !.currentQuestionIndex = 0]
          /\ last' = Last("startGame", NoBuzzer, "none", Ret0)
  /\ sent' = <<>>
  /\ written' = <<>>
  /\ UNCHANGED <<now, activeGames, timers, winnersSinceUnlock, connVars, jingleVars>>

\* GET /api/games/:id/current-question -> getCurrentQuestion
CurrentQuestionRoute ==
  /\ GameId \in activeGames
  /\ LET r == GetCurrentQuestion(game, now)
         shift == Shift(r.reset, now)
     IN /\ game' = RebaseGame(r.game, shift)
        /\ timers' = MarkStale(RebaseTimers(timers, shift), r.reset)
        /\ winnersSinceUnlock' = IF r.reset THEN 0 ELSE winnersSinceUnlock
        /\ now' = now - shift
        /\ last' = Last("getCurrentQuestion", NoBuzzer, r.question.id,
                        [Ret0 EXCEPT !.found = (r.question.id # "none")])
  /\ sent' = <<>>
  /\ written' = <<>>
  /\ UNCHANGED <<activeGames, connVars, jingleVars>>

\* POST /api/games/:id/next-question -> nextQuestion (-> endGame past the end)
NextQuestion ==
  /\ GameId \in activeGames
  /\ game.currentQuestionIndex < Len(GameQuestionIds)
  /\ LET g1 == [game EXCEPT !.currentQuestionIndex = @ + 1,
                            !.questionStartTime = 0,
                            !.currentQuestionAnswers = [b \in BuzzerIDs |-> Answer0]]
     IN game' = IF g1.currentQuestionIndex >= Len(GameQuestionIds)
                THEN [g1 EXCEPT !.status = "ended"]
                ELSE g1
  /\ sent' = <<>>
  /\ last' = Last("nextQuestion", NoBuzzer, "none", Ret0)
  /\ written' = <<>>
  /\ UNCHANGED <<now, activeGames, timers, winnersSinceUnlock, connVars, jingleVars>>

\* POST /api/games/:id/end -> endGame
EndGame ==
  /\ GameId \in activeGames
  /\ game' = [game EXCEPT !.status = "ended"]
  /\ sent' = <<>>
  /\ last' = Last("endGame", NoBuzzer, "none", Ret0)
  /\ written' = <<>>
  /\ UNCHANGED <<now, activeGames, timers, winnersSinceUnlock, connVars, jingleVars>>

\* POST /api/games/:id/players -> registerPlayer
RegisterPlayer(buzzerID) ==
  /\ GameId \in activeGames
  /\ game' = [game EXCEPT !.players[buzzerID] = [Player0 EXCEPT !.present = TRUE]]
  /\ sent' = <<>>
  /\ last' = Last("registerPlayer", buzzerID, "none", Ret0)
  /\ written' = <<>>
  /\ UNCHANGED <<now, activeGames, timers, winnersSinceUnlock, connVars, jingleVars>>

\* ------------------------------------------------- console -> server frames
\* handleQuestionSend: the questions table first, getCurrentQuestion only when
\* the table has no such id (it throws for an unknown game; caught).
HandleQuestionSend(t, gameId, questionId) ==
  /\ FromConsole(t)
  /\ LET inDb == questionId \in DOMAIN QuestionsTable
         fallback == ~inDb /\ gameId \in activeGames
         r == IF fallback THEN GetCurrentQuestion(game, now)
              ELSE [game |-> game, question |-> NoQuestion, reset |-> FALSE]
         question == IF inDb THEN QuestionsTable[questionId] ELSE r.question
         shift == Shift(r.reset, now)
     IN /\ game' = RebaseGame(r.game, shift)
        /\ timers' = MarkStale(RebaseTimers(timers, shift), r.reset)
        /\ winnersSinceUnlock' = IF r.reset THEN 0 ELSE winnersSinceUnlock
        /\ now' = now - shift
        /\ sent' = IF question.id = "none"
                   THEN SendToAngular("ERROR", NoBuzzer, questionId, 0)
                   ELSE BroadcastToBuzzers("QUESTION_START", question.id, now - shift)
                        \o SendToAngular("QUESTION_SENT", NoBuzzer, question.id,
                                         Len(buzzerClients))
        /\ last' = Last("QUESTION_SEND", NoBuzzer, questionId,
                        [Ret0 EXCEPT !.found = (question.id # "none"),
                                     !.known = (gameId \in activeGames)])
  /\ written' = <<>>
  /\ UNCHANGED <<activeGames, connVars, jingleVars>>

\* handleBuzzCorrect: validateBuzz(.., true), then the three notifications;
\* an unknown game makes validateBuzz throw and nothing is sent.
HandleBuzzCorrect(t, gameId, questionId, buzzerID) ==
  /\ FromConsole(t)
  /\ game.players[buzzerID].totalAnswers < MaxAnswers
  /\ IF gameId \notin activeGames
     THEN /\ game' = game
          /\ written' = <<>>
          /\ sent' = <<>>
          /\ last' = Last("BUZZ_CORRECT", buzzerID, questionId, Threw)
     ELSE LET r == ValidateBuzz(game, questionId, buzzerID, TRUE)
          IN /\ game' = r.game
             /\ written' = r.rows
             /\ sent' = SendToBuzzer(buzzerID, "ANSWER_RESULT", questionId, r.ret.responseTime)
                        \o SendToAngular("BUZZ_VALIDATED", buzzerID, questionId, r.ret.responseTime)
                        \o BroadcastToBuzzers("BUZZER_UNLOCKED", questionId, 0)
             /\ last' = Last("BUZZ_CORRECT", buzzerID, questionId, r.ret)
  /\ UNCHANGED <<now, activeGames, timers, winnersSinceUnlock, connVars, jingleVars>>

\* handleBuzzReopen: validateBuzz(.., false) and excludePlayer inside the try,
\* getExcludedPlayers outside it (an unknown game ends the handler there).
HandleBuzzReopen(t, gameId, questionId, buzzerID) ==
  /\ FromConsole(t)
  /\ game.players[buzzerID].totalAnswers < MaxAnswers
  /\ IF gameId \notin activeGames
     THEN /\ game' = game
          /\ written' = <<>>
          /\ sent' = <<>>
          /\ last' = Last("BUZZ_REOPEN", buzzerID, questionId, Threw)
     ELSE LET r == ValidateBuzz(game, questionId, buzzerID, FALSE)
              g2 == ExcludePlayer(r.game, buzzerID)
              excludedPlayers == GetExcludedPlayers(g2)
          IN /\ game' = g2
             /\ written' = r.rows
             /\ sent' = ForEachBuzzer(buzzerClients,
                                      LAMBDA id : IF id \notin excludedPlayers
                                                  THEN "BUZZER_UNLOCKED"
                                                  ELSE "BUZZER_EXCLUDED",
                                      questionId, 0)
                        \o SendToAngular("BUZZ_REOPENED", NoBuzzer, questionId,
                                         Len(buzzerClients) - Cardinality(excludedPlayers))
             /\ last' = Last("BUZZ_REOPEN", buzzerID, questionId, r.ret)
  /\ winnersSinceUnlock' = IF gameId \in activeGames THEN 0 ELSE winnersSinceUnlock
  /\ UNCHANGED <<now, activeGames, timers, connVars, jingleVars>>

\* -------------------------------------------------- buzzer -> server frames
\* handleMCQAnswer: recordAnswer inside a try, then ANSWER_RESULT to the buzzer
\* and ANSWER_RECEIVED to the console with whatever result stands.
HandleMCQAnswer(t, gameId, questionId, answer, synced) ==
  /\ FromBuzzer(t)
  /\ game.players[ws[t].buzzerID].totalAnswers < MaxAnswers
  /\ LET buzzerID == ws[t].buzzerID
         r == IF gameId \in activeGames
              THEN RecordAnswer(game, questionId, buzzerID, answer, synced, now)
              ELSE [game |-> game, rows |-> <<>>, ret |-> Threw]
     IN /\ game' = r.game
        /\ written' = r.rows
        /\ sent' = SendToBuzzer(buzzerID, "ANSWER_RESULT", questionId, r.ret.responseTime)
                   \o SendToAngular("ANSWER_RECEIVED", buzzerID, questionId, r.ret.responseTime)
        /\ last' = LastFrom(t, "ANSWER_MCQ", buzzerID, questionId, r.ret)
  /\ UNCHANGED <<now, activeGames, timers, winnersSinceUnlock, connVars, jingleVars>>

\* handleBuzzerBuzz: recordBuzz inside a try; BUZZ_IGNORED when it was ignored;
\* an accepted buzz arms the 200 ms timer unless one is armed.
HandleBuzzerBuzz(t, gameId, questionId, synced) ==
  /\ FromBuzzer(t)
  /\ LET buzzerID == ws[t].buzzerID
     IN IF gameId \notin activeGames
        THEN /\ UNCHANGED <<game, timers>>
             /\ sent' = <<>>
             /\ last' = LastFrom(t, "ANSWER_BUZZER", buzzerID, questionId, Threw)
        ELSE LET r == RecordBuzz(game, questionId, buzzerID, synced, now)
             IN /\ Len(r.game.currentQuestionBuzzes) <= MaxBuzzes
                /\ r.arm => Len(timers) < MaxTimers
                /\ game' = r.game
                /\ timers' = IF r.arm
                             THEN Append(timers, [questionId |-> questionId,
                                                  fireAt |-> now + EvalWindowMs,
                                                  stale |-> FALSE])
                             ELSE timers
                /\ sent' = IF r.ret.ignored
                           THEN SendToBuzzer(buzzerID, "BUZZ_IGNORED", questionId, 0)
                           ELSE <<>>
                /\ last' = LastFrom(t, "ANSWER_BUZZER", buzzerID, questionId, r.ret)
  /\ written' = <<>>
  /\ UNCHANGED <<now, activeGames, winnersSinceUnlock, connVars, jingleVars>>

\* ------------------------------------------------------------------ timers
\* The callback recordBuzz gave to setTimeout: evaluateBuzzes(gameId, questionId)
\* with the questionId of the buzz that armed it, then buzzEvaluationTimer = null.
\* Timers of one delay fire in the order they were armed, never early.
EvaluationTimerFires ==
  /\ timers # <<>>
  /\ now >= Head(timers).fireAt
  /\ LET questionId == Head(timers).questionId
         r == EvaluateBuzzes(game)
     IN /\ game' = [r.game EXCEPT !.buzzEvaluationTimer = FALSE]
        /\ sent' = IF r.fired THEN OnBuzzWinner(questionId, r.winner, r.responseTime)
                   ELSE <<>>
        /\ winnersSinceUnlock' = IF r.fired THEN winnersSinceUnlock + 1
                                 ELSE winnersSinceUnlock
        /\ last' = Last("evaluateBuzzes", r.winner, questionId,
                        [Ret0 EXCEPT !.fired = r.fired, !.responseTime = r.responseTime,
                                     !.stale = Head(timers).stale])
  /\ timers' = Tail(timers)
  /\ written' = <<>>
  /\ UNCHANGED <<now, activeGames, connVars, jingleVars>>

\* The clock advances.
Tick ==
  /\ now < Epoch + MaxTicks * TickMs
  /\ now' = now + TickMs
  /\ sent' = <<>>
  /\ last' = Last("tick", NoBuzzer, "none", Ret0)
  /\ written' = <<>>
  /\ UNCHANGED <<gameVars, connVars, jingleVars>>

\* While a timer is pending and not yet due, the clock goes on to its instant.
TimerTick ==
  /\ timers # <<>>
  /\ now < Head(timers).fireAt
  /\ now' = now + TickMs
  /\ sent' = <<>>
  /\ last' = Last("tick", NoBuzzer, "none", Ret0)
  /\ written' = <<>>
  /\ UNCHANGED <<gameVars, connVars, jingleVars>>

\* ============================================================ specifications
\* Synced timestamps a buzzer may put in a frame: none (0) or one tick ago; an
\* answer may also carry one far ahead of the server clock.
BuzzSynced == {0, now - TickMs}

AnswerSynced == {0, now - TickMs, now + FarAhead}

\* A session with the console on t1 and the buzzers B1, B2 registered on t2, t3
\* (a state the registry reaches, see SpecConn); no game created yet.
SessionWs ==
  [t \in Transports |->
     IF t = "t1" THEN [FreshWs EXCEPT !.readyState = "OPEN", !.identified = TRUE,
                                      !.clientType = "angular", !.isAlive = TRUE]
     ELSE IF t = "t2" THEN [FreshWs EXCEPT !.readyState = "OPEN", !.identified = TRUE,
                                           !.clientType = "buzzer", !.buzzerID = "B1",
                                           !.isAlive = TRUE]
     ELSE [FreshWs EXCEPT !.readyState = "OPEN", !.identified = TRUE,
                          !.clientType = "buzzer", !.buzzerID = "B2", !.isAlive = TRUE]]

\* A read stream of handleJinglePlay: the transport and jingleId its handlers
\* captured, chunkIndex, and the bytes of the file not yet read.  frames is
\* history: chunkIndex and payload size of every binary frame sent so far.
NoStream == [state |-> "none", ws |-> NoWs, jingleId |-> 0, chunkIndex |-> 0, remaining |-> 0,
             frames |-> <<>>]

Init ==
  /\ now = Epoch
  /\ activeGames = {}
  /\ game = NewGame
  /\ timers = <<>>
  /\ winnersSinceUnlock = 0
  /\ written = <<>>
  /\ ws = SessionWs
  /\ angularClient = "t1"
  /\ buzzerClients = <<[id |-> "B1", ws |-> "t2", playerNumber |-> 1],
                       [id |-> "B2", ws |-> "t3", playerNumber |-> 2]>>
  /\ activeJingleStreams = {}
  /\ streams = [b \in BuzzerIDs |-> NoStream]
  /\ sent = <<>>
  /\ last = Last("none", NoBuzzer, "none", Ret0)

\* Buzz arbitration on the first question of the game: its dispatch through
\* the current-question route, buzzes, the evaluation timer, the console's
\* verdicts.
BuzzQuestionId == GameQuestionIds[1]

Next ==
  \/ CreateGame
  \/ StartGame
  \/ CurrentQuestionRoute
  \/ \E t \in Transports, b \in BuzzerIDs : HandleBuzzCorrect(t, GameId, BuzzQuestionId, b)
  \/ \E t \in Transports, b \in BuzzerIDs : HandleBuzzReopen(t, GameId, BuzzQuestionId, b)
  \/ \E t \in Transports, s \in BuzzSynced : HandleBuzzerBuzz(t, GameId, BuzzQuestionId, s)
  \/ EvaluationTimerFires
  \/ Tick

Spec == Init /\ [][Next]_vars

\* The same session with its scheduling: the clock does not stop short of a
\* pending timer, and a timer that is due fires.
NextLive ==
  \/ Next
  \/ TimerTick

SpecLive ==
  Init /\ [][NextLive]_vars /\ WF_vars(TimerTick) /\ WF_vars(EvaluationTimerFires)

\* Answers and scoring: the game's lifecycle, players, MCQ answers to the
\* game's MCQ question or to a question the table does not hold.
AnswerQuestionIds == {GameQuestionIds[2], UnknownQuestion}

NextAnswer ==
  \/ CreateGame
  \/ StartGame
  \/ CurrentQuestionRoute
  \/ \E b \in BuzzerIDs : RegisterPlayer(b)
  \/ \E t \in Transports, g \in GameIds, q \in QuestionIdsSent : HandleQuestionSend(t, g, q)
  \/ \E t \in Transports, q \in AnswerQuestionIds, a \in Answers, s \in AnswerSynced :
        HandleMCQAnswer(t, GameId, q, a, s)
  \/ Tick

SpecAnswer == Init /\ [][NextAnswer]_vars

\* The questions of a game one after the other: dispatch, answers to either
\* question, the move to the next question.  No player is registered and the
\* clock stands still.
NextQuestions ==
  \/ CreateGame
  \/ StartGame
  \/ CurrentQuestionRoute
  \/ NextQuestion
  \/ \E t \in Transports, q \in DOMAIN QuestionsTable, a \in Answers :
        HandleMCQAnswer(t, GameId, q, a, 0)

SpecQuestions == Init /\ [][NextQuestions]_vars

\* The life of a game: its routes in any order, with players and the
\* dispatch of its current question.  The clock stands still.
NextLifecycle ==
  \/ CreateGame
  \/ StartGame
  \/ CurrentQuestionRoute
  \/ NextQuestion
  \/ EndGame
  \/ \E b \in BuzzerIDs : RegisterPlayer(b)

SpecLifecycle == Init /\ [][NextLifecycle]_vars

\* Scores: registered players, answers to either question, the console's
\* verdicts on buzzes.  The clock stands still.
NextScore ==
  \/ CreateGame
  \/ StartGame
  \/ CurrentQuestionRoute
  \/ \E b \in BuzzerIDs : RegisterPlayer(b)
  \/ \E t \in Transports, q \in DOMAIN QuestionsTable, a \in Answers :
        HandleMCQAnswer(t, GameId, q, a, 0)
  \/ \E t \in Transports, b \in BuzzerIDs : HandleBuzzCorrect(t, GameId, BuzzQuestionId, b)
  \/ \E t \in Transports, b \in BuzzerIDs : HandleBuzzReopen(t, GameId, BuzzQuestionId, b)

SpecScore == Init /\ [][NextScore]_vars

\* ------------------------------------------- connections and the registry
\* sendToClient(ws, type, payload)
SendToClient(t, type, buzzerID, val) ==
  IF IsOpen(t) THEN <<Msg(t, type, buzzerID, "none", val)>> ELSE <<>>

\* A transport name is taken again only when nothing holds its previous use.
Referenced(t) ==
  \/ angularClient = t
  \/ \E i \in DOMAIN buzzerClients : buzzerClients[i].ws = t
  \/ \E b \in BuzzerIDs : streams[b].state = "reading" /\ streams[b].ws = t

\* wss.on('connection'): a new transport, open and not identified, its
\* identification timer armed, its liveness flag set.
Connect(t) ==
  /\ ws[t].readyState = "CLOSED"
  /\ ~Referenced(t)
  /\ now < Epoch + MaxConnectSteps * IdentStepMs
  /\ ws' = [ws EXCEPT ![t] = [FreshWs EXCEPT !.readyState = "OPEN",
                                  !.identificationTimeout = now + IdentificationTimeoutMs,
                                  !.isAlive = TRUE, !.acceptedAt = now]]
  /\ sent' = <<>>
  /\ last' = Last("connection", NoBuzzer, "none", Ret0)
  /\ written' = <<>>
  /\ UNCHANGED <<now, gameVars, angularClient, buzzerClients, jingleVars>>

\* routeMessage, ANGULAR_CONNECT on a transport not yet identified, and
\* handleAngularConnection with sendBuzzerListToAngular.
AngularConnect(t) ==
  /\ ws[t].readyState = "OPEN" /\ ~ws[t].identified
  /\ ws' = [ws EXCEPT ![t].identified = TRUE, ![t].clientType = "angular",
                       ![t].identificationTimeout = 0]
  /\ angularClient' = t
  /\ sent' = SendToClient(t, "CONNECTED", NoBuzzer, 0)
              \o SendToClient(t, "BUZZER_LIST_UPDATE", NoBuzzer, Len(buzzerClients))
  /\ last' = Last("ANGULAR_CONNECT", NoBuzzer, "none", Ret0)
  /\ written' = <<>>
  /\ UNCHANGED <<now, gameVars, buzzerClients, jingleVars>>

\* routeMessage, BUZZER_REGISTER on a transport not yet identified (the
\* transport is marked with the buzzerID first), and handleBuzzerRegistration.
BuzzerRegister(t, buzzerID) ==
  /\ ws[t].readyState = "OPEN" /\ ~ws[t].identified
  /\ LET marked == [ws EXCEPT ![t].identified = TRUE, ![t].clientType = "buzzer",
                              ![t].buzzerID = buzzerID, ![t].identificationTimeout = 0]
         playerNumber == Len(buzzerClients) + 1
     IN IF Has(buzzerClients, buzzerID)
        THEN /\ ws' = [marked EXCEPT ![t].readyState = "CLOSING",
                                     ![t].closeCode = CloseDuplicate]
             /\ buzzerClients' = buzzerClients
             /\ sent' = SendToClient(t, "CONNECTION_REJECTED", buzzerID, 0)
             /\ last' = Last("BUZZER_REGISTER", buzzerID, "none",
                             [Ret0 EXCEPT !.duplicate = TRUE])
        ELSE /\ ws' = marked
             /\ buzzerClients' = Append(buzzerClients,
                                        [id |-> buzzerID, ws |-> t,
                                         playerNumber |-> playerNumber])
             /\ sent' = SendToClient(t, "CONNECTION_ACK", buzzerID, playerNumber)
                        \o SendToAngular("BUZZER_CONNECTED", buzzerID, "none",
                                         Len(buzzerClients) + 1)
             /\ last' = Last("BUZZER_REGISTER", buzzerID, "none", Ret0)
  /\ written' = <<>>
  /\ UNCHANGED <<now, gameVars, angularClient, jingleVars>>

\* ws.on('close'): the transport is closed (after a close() of the server, or
\* because the peer left or was terminated), then handleDisconnection.  Nothing
\* reads the _fields of a closed transport afterwards.
CloseEvent(t) ==
  /\ ws[t].readyState \in {"OPEN", "CLOSING"}
  /\ ws' = [ws EXCEPT ![t] = FreshWs]
  /\ IF ws[t].clientType = "angular"
     THEN /\ angularClient' = NoWs
          /\ buzzerClients' = buzzerClients
          /\ sent' = <<>>
     ELSE IF ws[t].clientType = "buzzer" /\ ws[t].buzzerID # NoBuzzer
     THEN /\ angularClient' = angularClient
          /\ buzzerClients' = Delete(buzzerClients, ws[t].buzzerID)
          /\ sent' = SendToAngular("BUZZER_DISCONNECTED", ws[t].buzzerID, "none",
                                   Len(Delete(buzzerClients, ws[t].buzzerID)))
     ELSE /\ UNCHANGED <<angularClient, buzzerClients>>
          /\ sent' = <<>>
  /\ last' = Last("close", ws[t].buzzerID, "none", Ret0)
  /\ written' = <<>>
  /\ UNCHANGED <<now, gameVars, jingleVars>>

\* handleBuzzerForceDisconnect: close(4003) on the registry's transport.
HandleBuzzerForceDisconnect(t, buzzerID) ==
  /\ FromConsole(t)
  /\ ws' = IF Has(buzzerClients, buzzerID) /\ IsOpen(Get(buzzerClients, buzzerID).ws)
           THEN [ws EXCEPT ![Get(buzzerClients, buzzerID).ws].readyState = "CLOSING",
                           ![Get(buzzerClients, buzzerID).ws].closeCode = CloseAdmin]
           ELSE ws
  /\ sent' = <<>>
  /\ last' = Last("BUZZER_DISCONNECT", buzzerID, "none", Ret0)
  /\ written' = <<>>
  /\ UNCHANGED <<now, gameVars, angularClient, buzzerClients, jingleVars>>

\* ------------------------------------------- identification and heartbeat
\* routeMessage, BUZZER_REGISTER without a payload on a transport not yet
\* identified: the transport is marked, then reading payload.buzzerID throws
\* before clearTimeout and the on('message') handler logs the error.
BuzzerRegisterNoPayload(t) ==
  /\ ws[t].readyState = "OPEN" /\ ~ws[t].identified
  /\ ws' = [ws EXCEPT ![t].identified = TRUE, ![t].clientType = "buzzer"]
  /\ sent' = <<>>
  /\ last' = Last("BUZZER_REGISTER", NoBuzzer, "none", Threw)
  /\ written' = <<>>
  /\ UNCHANGED <<now, gameVars, angularClient, buzzerClients, jingleVars>>

\* A timeout callback that closes the transport whatever its state.
TimeoutClosesAlways(w) == TRUE

\* if (!ws._identified)
TimeoutCloses(w) == ~w.identified

\* The callback of the identification timer of transport t, never early.
\* close() acts on an open transport only.
IdentificationTimeoutFires(t) ==
  /\ ws[t].identificationTimeout # 0
  /\ now >= ws[t].identificationTimeout
  /\ ws' = IF TimeoutCloses(ws[t]) /\ ws[t].readyState = "OPEN"
           THEN [ws EXCEPT ![t].identificationTimeout = 0,
                           ![t].readyState = "CLOSING",
                           ![t].closeCode = CloseIdentification]
           ELSE [ws EXCEPT ![t].identificationTimeout = 0]
  /\ sent' = <<>>
  /\ last' = Last("identificationTimeout", ws[t].buzzerID, "none", Ret0)
  /\ written' = <<>>
  /\ UNCHANGED <<now, gameVars, angularClient, buzzerClients, jingleVars>>

\* While an identification timer is pending and not yet due, the clock goes on.
IdentificationClock ==
  /\ \E t \in Transports :
        ws[t].identificationTimeout # 0 /\ now < ws[t].identificationTimeout
  /\ now' = now + IdentStepMs
  /\ sent' = <<>>
  /\ last' = Last("tick", NoBuzzer, "none", Ret0)
  /\ written' = <<>>
  /\ UNCHANGED <<gameVars, connVars, jingleVars>>

\* wss.clients: the transports accepted and not yet closed.
Clients == {t \in Transports : ws[t].readyState \in {"OPEN", "CLOSING"}}

\* A heartbeat that terminates nobody.
HeartbeatKillsNever(w) == FALSE

\* if (!ws.isAlive) return ws.terminate();
HeartbeatKills(w) == ~w.isAlive

\* One transport under the heartbeat callback.
HeartbeatOn(w) ==
  IF HeartbeatKills(w)
  THEN [w EXCEPT !.readyState = "CLOSING", !.terminated = TRUE]
  ELSE [w EXCEPT !.isAlive = FALSE]

\* The callback of the heartbeat interval: every client is terminated or has
\* its flag cleared and is sent a ping (a ping reaches an open transport only).
HeartbeatTick ==
  /\ ws' = [t \in Transports |->
              IF t \in Clients
              THEN [HeartbeatOn(ws[t]) EXCEPT
                      !.heartbeats = IF @ < MaxHeartbeats THEN @ + 1 ELSE @,
                      !.ponged = FALSE]
              ELSE ws[t]]
  /\ sent' = LET pinged(t) == t \in Clients /\ ~HeartbeatKills(ws[t]) /\ IsOpen(t)
                 ping(t) == IF pinged(t) THEN <<Msg(t, "ping", NoBuzzer, "none", 0)>>
                            ELSE <<>>
             IN ping("t1") \o ping("t2") \o ping("t3")
  /\ last' = Last("heartbeat", NoBuzzer, "none", Ret0)
  /\ written' = <<>>
  /\ UNCHANGED <<now, gameVars, angularClient, buzzerClients, jingleVars>>

\* ws.on('pong'): a pong of the peer arrives.
Pong(t) ==
  /\ ws[t].readyState = "OPEN"
  /\ ws' = [ws EXCEPT ![t].isAlive = TRUE, ![t].ponged = TRUE]
  /\ sent' = <<>>
  /\ last' = Last("pong", ws[t].buzzerID, "none", Ret0)
  /\ written' = <<>>
  /\ UNCHANGED <<now, gameVars, angularClient, buzzerClients, jingleVars>>

\* ------------------------------------------------------------------ jingles
\* handleJinglePlay up to the creation of the read stream.  (Its path check
\* compares path.resolve(p) with path.resolve(path.normalize(p)), which are
\* equal for every p.)
\* A handleJinglePlay without its first check.
JinglePlayRefusedIgnoringActive(buzzerID, jingleId) ==
  \/ ~Has(buzzerClients, buzzerID)
  \/ ~IsOpen(Get(buzzerClients, buzzerID).ws)
  \/ jingleId \notin DOMAIN JinglesTable
  \/ ~JinglesTable[jingleId].fileExists

\* The checks of handleJinglePlay that end it with a JINGLE_ERROR.
JinglePlayRefused(buzzerID, jingleId) ==
  \/ buzzerID \in activeJingleStreams
  \/ ~Has(buzzerClients, buzzerID)
  \/ ~IsOpen(Get(buzzerClients, buzzerID).ws)
  \/ jingleId \notin DOMAIN JinglesTable
  \/ ~JinglesTable[jingleId].fileExists

HandleJinglePlay(t, buzzerID, jingleId) ==
  /\ FromConsole(t)
  /\ IF JinglePlayRefused(buzzerID, jingleId)
     THEN /\ sent' = SendToAngular("JINGLE_ERROR", buzzerID, "none", jingleId)
          /\ UNCHANGED <<jingleVars, ws>>
          /\ last' = Last("JINGLE_PLAY", buzzerID, "none", [Ret0 EXCEPT !.ignored = TRUE])
     ELSE /\ sent' = SendToBuzzer(buzzerID, "JINGLE_START", "none", jingleId)
                     \o SendToAngular("JINGLE_STARTED", buzzerID, "none", jingleId)
          /\ ws' = [ws EXCEPT ![Get(buzzerClients, buzzerID).ws].jingleStarted = TRUE]
          /\ activeJingleStreams' = activeJingleStreams \cup {buzzerID}
          /\ streams' = [streams EXCEPT ![buzzerID] =
                            [state |-> "reading", ws |-> Get(buzzerClients, buzzerID).ws,
                             jingleId |-> jingleId, chunkIndex |-> 0,
                             remaining |-> JinglesTable[jingleId].fileSize,
                             frames |-> <<>>]]
          /\ last' = Last("JINGLE_PLAY", buzzerID, "none", Ret0)
  /\ written' = <<>>
  /\ UNCHANGED <<now, gameVars, angularClient, buzzerClients>>

\* A read that hands over all that is left of the file at once.
ChunkBytesWholeFile(remaining) == remaining

\* The size of the next chunk of a read stream with highWaterMark ChunkSize.
ChunkBytes(remaining) == IF remaining < ChunkSize THEN remaining ELSE ChunkSize

\* A data handler that does not look at the transport.
StreamWritableAlways(buzzerID) == TRUE

\* buzzerData.ws.readyState === WebSocket.OPEN, on the transport captured
\* when the stream was created
StreamWritable(buzzerID) == IsOpen(streams[buzzerID].ws)

\* readStream.on('data'): a chunk goes to the transport the handler captured
\* when it is open; otherwise the stream is destroyed, after which it emits
\* neither 'end' nor 'error'.
StreamData(buzzerID) ==
  /\ streams[buzzerID].state = "reading"
  /\ streams[buzzerID].remaining > 0
  /\ IF StreamWritable(buzzerID)
     THEN /\ sent' = <<Msg(streams[buzzerID].ws, "chunk", buzzerID, "none",
                           streams[buzzerID].chunkIndex)>>
          /\ streams' = [streams EXCEPT
                           ![buzzerID].chunkIndex = @ + 1,
                           ![buzzerID].remaining = @ - ChunkBytes(@),
                           ![buzzerID].frames =
                              Append(@, [chunkIndex |-> streams[buzzerID].chunkIndex,
                                         bytes |-> ChunkBytes(streams[buzzerID].remaining)])]
     ELSE /\ sent' = <<>>
          /\ streams' = [streams EXCEPT ![buzzerID] = [NoStream EXCEPT !.state = "destroyed"]]
  /\ last' = Last("data", buzzerID, "none", Ret0)
  /\ written' = <<>>
  /\ UNCHANGED <<now, gameVars, connVars, activeJingleStreams>>

\* readStream.on('end'): the whole file was read.
StreamEnd(buzzerID) ==
  /\ streams[buzzerID].state = "reading"
  /\ streams[buzzerID].remaining = 0
  /\ activeJingleStreams' = activeJingleStreams \ {buzzerID}
  /\ streams' = [streams EXCEPT ![buzzerID] = NoStream]
  /\ sent' = SendToBuzzer(buzzerID, "JINGLE_END", "none", streams[buzzerID].chunkIndex)
              \o SendToAngular("JINGLE_COMPLETED", buzzerID, "none",
                               streams[buzzerID].chunkIndex)
  /\ ws' = IF Has(buzzerClients, buzzerID) /\ IsOpen(Get(buzzerClients, buzzerID).ws)
           THEN [ws EXCEPT ![Get(buzzerClients, buzzerID).ws].jingleStarted = FALSE]
           ELSE ws
  /\ last' = Last("end", buzzerID, "none", Ret0)
  /\ written' = <<>>
  /\ UNCHANGED <<now, gameVars, angularClient, buzzerClients>>

\* readStream.on('error'): the read failed.
StreamError(buzzerID) ==
  /\ streams[buzzerID].state = "reading"
  /\ activeJingleStreams' = activeJingleStreams \ {buzzerID}
  /\ streams' = [streams EXCEPT ![buzzerID] = NoStream]
  /\ sent' = SendToAngular("JINGLE_ERROR", buzzerID, "none", streams[buzzerID].jingleId)
  /\ last' = Last("error", buzzerID, "none", Ret0)
  /\ written' = <<>>
  /\ UNCHANGED <<now, gameVars, connVars>>

\* The state after construction: nobody connected, no game, no stream.
InitConn ==
  /\ now = Epoch
  /\ activeGames = {}
  /\ game = NewGame
  /\ timers = <<>>
  /\ winnersSinceUnlock = 0
  /\ written = <<>>
  /\ ws = [t \in Transports |-> FreshWs]
  /\ angularClient = NoWs
  /\ buzzerClients = <<>>
  /\ activeJingleStreams = {}
  /\ streams = [b \in BuzzerIDs |-> NoStream]
  /\ sent = <<>>
  /\ last = Last("none", NoBuzzer, "none", Ret0)

\* Connections, the buzzer registry and the jingle streamer.
NextConn ==
  \/ \E t \in Transports : Connect(t)
  \/ \E t \in Transports : AngularConnect(t)
  \/ \E t \in Transports, b \in BuzzerIDs : BuzzerRegister(t, b)
  \/ \E t \in Transports : CloseEvent(t)
  \/ \E t \in Transports, b \in BuzzerIDs : HandleBuzzerForceDisconnect(t, b)
  \/ \E t \in Transports, b \in BuzzerIDs, j \in JingleIdsSent : HandleJinglePlay(t, b, j)
  \/ \E b \in BuzzerIDs : StreamData(b)
  \/ \E b \in BuzzerIDs : StreamEnd(b)
  \/ \E b \in BuzzerIDs : StreamError(b)

SpecConn == InitConn /\ [][NextConn]_vars

\* Response times: answers and buzzes whose synced timestamp is absent, not a
\* number, long before the dispatch, just before it, or far ahead of the
\* server clock, to the MCQ question of the game.  The clock stands still.
TimeSynced == {0, NonNumeric, now - FarAhead, now - TickMs, now + FarAhead}

NextTime ==
  \/ CreateGame
  \/ StartGame
  \/ CurrentQuestionRoute
  \/ \E t \in Transports, s \in TimeSynced :
        HandleMCQAnswer(t, GameId, GameQuestionIds[2], 1, s)
  \/ \E t \in Transports, s \in TimeSynced : HandleBuzzerBuzz(t, GameId, BuzzQuestionId, s)

SpecTime == Init /\ [][NextTime]_vars

\* Identification: transports are accepted, identify themselves or not, leave,
\* and the clock reaches the instant of every pending identification timer.
NextIdent ==
  \/ \E t \in Transports : Connect(t)
  \/ \E t \in Transports : AngularConnect(t)
  \/ \E t \in Transports, b \in BuzzerIDs : BuzzerRegister(t, b)
  \/ \E t \in Transports : BuzzerRegisterNoPayload(t)
  \/ \E t \in Transports : CloseEvent(t)
  \/ \E t \in Transports : IdentificationTimeoutFires(t)
  \/ IdentificationClock

SpecIdent ==
  /\ InitConn /\ [][NextIdent]_vars
  /\ WF_vars(IdentificationClock)
  /\ \A t \in Transports : WF_vars(IdentificationTimeoutFires(t))

\* The heartbeat: transports are accepted, become the console or stay
\* unidentified, answer pings or not, leave; the interval fires.
NextHeartbeat ==
  \/ \E t \in Transports : Connect(t)
  \/ \E t \in Transports : AngularConnect(t)
  \/ \E t \in Transports : CloseEvent(t)
  \/ \E t \in Transports : Pong(t)
  \/ HeartbeatTick

SpecHeartbeat == InitConn /\ [][NextHeartbeat]_vars

\* A room with more devices than the server announces: twelve transports, each
\* with a buzzerID of its own.  They arrive one after another in the order of
\* the pool and leave in the reverse order; each registers its own buzzerID
\* or, while there is no console, becomes the console.
PoolTransports ==
  <<"p1", "p2", "p3", "p4", "p5", "p6", "p7", "p8", "p9", "p10", "p11", "p12">>
PoolBuzzerIDs ==
  <<"P1", "P2", "P3", "P4", "P5", "P6", "P7", "P8", "P9", "P10", "P11", "P12">>

InitCapacity ==
  /\ now = Epoch
  /\ activeGames = {}
  /\ game = NewGame
  /\ timers = <<>>
  /\ winnersSinceUnlock = 0
  /\ written = <<>>
  /\ ws = [t \in {PoolTransports[i] : i \in DOMAIN PoolTransports} |-> FreshWs]
  /\ angularClient = NoWs
  /\ buzzerClients = <<>>
  /\ activeJingleStreams = {}
  /\ streams = [b \in BuzzerIDs |-> NoStream]
  /\ sent = <<>>
  /\ last = Last("none", NoBuzzer, "none", Ret0)

\* The next device to arrive: every one before it in the pool is connected
\* and identified.
NextArrival(i) ==
  \A j \in DOMAIN PoolTransports :
     j < i => ws[PoolTransports[j]].readyState = "OPEN" /\ ws[PoolTransports[j]].identified

\* The device that arrived last: no one after it in the pool is connected.
LastArrival(i) ==
  \A j \in DOMAIN PoolTransports : j > i => ws[PoolTransports[j]].readyState = "CLOSED"

NextCapacity ==
  \/ \E i \in DOMAIN PoolTransports : NextArrival(i) /\ Connect(PoolTransports[i])
  \/ \E i \in DOMAIN PoolTransports :
        angularClient = NoWs /\ AngularConnect(PoolTransports[i])
  \/ \E i \in DOMAIN PoolTransports : BuzzerRegister(PoolTransports[i], PoolBuzzerIDs[i])
  \/ \E i \in DOMAIN PoolTransports : LastArrival(i) /\ CloseEvent(PoolTransports[i])

SpecCapacity == InitCapacity /\ [][NextCapacity]_vars

\* Buzzer frames and the registry: transports register as B1, are accepted
\* or rejected, leave, and send answers and buzzes to the started game.
NextRoute ==
  \/ \E t \in Transports : Connect(t)
  \/ \E t \in Transports : BuzzerRegister(t, "B1")
  \/ \E t \in Transports : CloseEvent(t)
  \/ CreateGame
  \/ StartGame
  \/ CurrentQuestionRoute
  \/ \E t \in Transports : HandleMCQAnswer(t, GameId, GameQuestionIds[2], 1, 0)
  \/ \E t \in Transports : HandleBuzzerBuzz(t, GameId, BuzzQuestionId, 0)

SpecRoute == InitConn /\ [][NextRoute]_vars

\* The console's BUZZ_REOPEN while buzzers leave and come back: the session of
\* Init, a game, and closes and registrations of the buzzers' transports.
NextReopen ==
  \/ CreateGame
  \/ \E t \in Transports, b \in BuzzerIDs : HandleBuzzReopen(t, GameId, BuzzQuestionId, b)
  \/ \E t \in Transports : t # angularClient /\ CloseEvent(t)
  \/ \E t \in Transports : Connect(t)
  \/ \E t \in Transports, b \in BuzzerIDs : BuzzerRegister(t, b)

SpecReopen == Init /\ [][NextReopen]_vars

\* Connections, the registry and the dispatch of questions to whoever is
\* registered at that moment (no game exists: only the questions table answers).
NextDispatch ==
  \/ \E t \in Transports : Connect(t)
  \/ \E t \in Transports : AngularConnect(t)
  \/ \E t \in Transports, b \in BuzzerIDs : BuzzerRegister(t, b)
  \/ \E t \in Transports : CloseEvent(t)
  \/ \E t \in Transports, b \in BuzzerIDs : HandleBuzzerForceDisconnect(t, b)
  \/ \E t \in Transports, g \in GameIds, q \in QuestionIdsSent : HandleQuestionSend(t, g, q)

SpecDispatch == InitConn /\ [][NextDispatch]_vars

\* ==================================================================== claims
\* The step of the evaluation timer's callback in which onBuzzWinner was called.
WinnerElected == last'.op = "evaluateBuzzes" /\ last'.ret.fired

BuzzList == game.currentQuestionBuzzes

\* The orders in which the frames of a list of buzzes can arrive.
Orders(buzzes) ==
  LET n == Len(buzzes)
      perms == {p \in [1..n -> 1..n] : \A i, j \in 1..n : p[i] = p[j] => i = j}
  IN {[i \in 1..n |-> buzzes[p[i]]] : p \in perms}

\* One buzz of the list is strictly faster than every other.
UniqueFastest(buzzes) ==
  \E i \in DOMAIN buzzes :
     \A j \in DOMAIN buzzes : j # i => buzzes[i].responseTime < buzzes[j].responseTime

C2_OrderIndependentWithoutTie ==
  [][WinnerElected =>
       \A arrival \in Orders(PendingBuzzes(game)) :
          UniqueFastest(arrival) => Winner(arrival).buzzerID = last'.buzzerID]_vars

\* Two buzzes with distinct response times were evaluated together, the slower
\* one having arrived first.
C2_Witness ==
  /\ last.op = "evaluateBuzzes" /\ last.ret.fired
  /\ Len(BuzzList) = 2 /\ game.currentQuestionExcluded = {}
  /\ BuzzList[1].processed /\ BuzzList[2].processed
  /\ BuzzList[1].buzzerID # BuzzList[2].buzzerID
  /\ BuzzList[1].responseTime > BuzzList[2].responseTime
  /\ game.currentQuestionWinner = BuzzList[2].buzzerID

\* C2 (as stated): the elected buzzerID is the same for every arrival order of
\* the buzzes evaluated together, ties included.
C2_OrderIndependent ==
  [][WinnerElected =>
       \A arrival \in Orders(PendingBuzzes(game)) :
          Winner(arrival).buzzerID = last'.buzzerID]_vars

\* C3: between two consecutive unlock events (excludePlayer, or a reset of the
\* question state) onBuzzWinner is called at most once.
C3_OneWinnerPerCycle == winnersSinceUnlock <= 1

\* A timer's callback ran after a winner had been elected in the same cycle,
\* and elected nobody.
C3_Witness ==
  /\ last.op = "evaluateBuzzes" /\ ~last.ret.fired
  /\ winnersSinceUnlock = 1
  /\ game.buzzerLocked

\* A transport sends BUZZER_REGISTER with a buzzerID the registry holds.
DuplicateRegister(t) ==
  /\ ~ws[t].identified /\ ws'[t].identified /\ ws'[t].clientType = "buzzer"
  /\ Has(buzzerClients, ws'[t].buzzerID)

\* The close event of a transport that was closed with code 4002 is handled.
RejectedCloses(t) ==
  /\ ws[t].readyState = "CLOSING" /\ ws[t].closeCode = CloseDuplicate
  /\ ws'[t].readyState = "CLOSED"

\* C4: a BUZZER_REGISTER with a buzzerID already in the registry is answered
\* with CONNECTION_REJECTED, the transport is closed with code 4002, and the
\* registry is unchanged, both by the registration and by the close event of
\* the rejected transport.
C4_DuplicateLeavesRegistry ==
  [][\A t \in Transports :
        /\ DuplicateRegister(t) =>
              /\ sent' = <<Msg(t, "CONNECTION_REJECTED", ws'[t].buzzerID, "none", 0)>>
              /\ ws'[t].readyState = "CLOSING" /\ ws'[t].closeCode = CloseDuplicate
              /\ buzzerClients' = buzzerClients
        /\ RejectedCloses(t) => buzzerClients' = buzzerClients]_vars

\* C5: the callback of a timer armed before the latest reset of the question
\* state elects no winner (the timer is cancelled, or its callback is a no-op).
C5_StaleTimerIsNoOp ==
  (last.op = "evaluateBuzzes" /\ last.ret.stale) => ~last.ret.fired

\* The frames of the last handler that have the given type.
SentOfType(type) == {i \in DOMAIN sent : sent[i].type = type}

\* C6: after a QUESTION_SEND for an existing game whose question was found, the
\* question runtime state of the game is reset: questionStartTime is now, no answers, no buzzes, nobody
\* excluded, buzzers unlocked, no winner, no evaluation timer armed.
C6_QuestionSendResets ==
  (last.op = "QUESTION_SEND" /\ last.ret.found /\ last.ret.known) =>
     /\ game.questionStartTime = now
     /\ \A b \in BuzzerIDs : ~game.currentQuestionAnswers[b].present
     /\ game.currentQuestionBuzzes = <<>>
     /\ game.currentQuestionExcluded = {}
     /\ ~game.buzzerLocked
     /\ game.currentQuestionWinner = NoBuzzer
     /\ ~game.buzzEvaluationTimer

\* C7: an ANSWER_MCQ that recordAnswer reported as a duplicate sends no
\* ANSWER_RECEIVED to the console.
C7_NoSecondAnswerReceived ==
  (last.op = "ANSWER_MCQ" /\ last.ret.duplicate) => SentOfType("ANSWER_RECEIVED") = {}

\* C8: recordAnswer for a buzzerID that already has an entry in the answers map
\* returns {duplicate: true, isCorrect: false, points: 0, responseTime: 0} and
\* leaves the game (answers map, scores, counters) and the stored results as
\* they were.
C8_DuplicateAnswerChangesNothing ==
  [][(last'.op = "ANSWER_MCQ" /\ game.currentQuestionAnswers[last'.buzzerID].present) =>
       /\ last'.ret = [Ret0 EXCEPT !.duplicate = TRUE]
       /\ game' = game
       /\ written' = <<>>]_vars

\* A registered player who answered the MCQ correctly and was scored sent a
\* second answer, which came back as a duplicate.
C8_Witness ==
  /\ last.op = "ANSWER_MCQ" /\ last.ret.duplicate
  /\ game.players[last.buzzerID].present
  /\ game.players[last.buzzerID].totalAnswers = 1
  /\ game.players[last.buzzerID].score = QuestionsTable[GameQuestionIds[2]].points
  /\ game.currentQuestionAnswers[last.buzzerID].isCorrect

\* C9: every buzzerID in activeJingleStreams is a key of the buzzer registry.
C9_StreamsOfRegisteredBuzzers == activeJingleStreams \subseteq RegisteredIDs

\* C10: a jingle stream that was aborted because the buzzer's transport is no
\* longer writable has its buzzerID removed from activeJingleStreams.
C10_AbortedStreamIsRemoved ==
  \A b \in BuzzerIDs : streams[b].state = "destroyed" => b \notin activeJingleStreams

\* C11: a JINGLE_PLAY for a buzzerID that is in activeJingleStreams sends
\* nothing but one JINGLE_ERROR to the console (dropped, like every send to the
\* console, when the console slot holds no open transport): no JINGLE_START,
\* no binary frame, and the streams and activeJingleStreams stay as they were.
C11_SecondJinglePlayRefused ==
  [][(last'.op = "JINGLE_PLAY" /\ last'.buzzerID \in activeJingleStreams) =>
       /\ \A i \in DOMAIN sent' :
             sent'[i].type = "JINGLE_ERROR" /\ sent'[i].to = angularClient
       /\ Len(sent') = IF angularClient # NoWs /\ ws[angularClient].readyState = "OPEN"
                       THEN 1 ELSE 0
       /\ streams' = streams
       /\ activeJingleStreams' = activeJingleStreams]_vars

\* A second JINGLE_PLAY came while the first stream had sent one frame, and
\* was answered with JINGLE_ERROR.
C11_Witness ==
  /\ last.op = "JINGLE_PLAY" /\ last.ret.ignored
  /\ last.buzzerID \in activeJingleStreams
  /\ streams[last.buzzerID].state = "reading"
  /\ streams[last.buzzerID].chunkIndex = 1
  /\ Len(sent) = 1 /\ sent[1].type = "JINGLE_ERROR"

\* C12: a transport that was sent a JINGLE_START is sent no second one before
\* it was sent a JINGLE_END or a JINGLE_ERROR.
C12_NoSecondJingleStart ==
  [][\A t \in Transports :
        ws[t].jingleStarted =>
           ~\E i \in DOMAIN sent' : sent'[i].to = t /\ sent'[i].type = "JINGLE_START"]_vars

RECURSIVE SumBytes(_)
SumBytes(frames) ==
  IF frames = <<>> THEN 0 ELSE Head(frames).bytes + SumBytes(Tail(frames))

\* C13: the binary frames of a stream carry chunkIndex 0, 1, 2, ... in the
\* order sent, each with 1..4096 payload bytes that together are the part of
\* the file read so far, and JINGLE_END (and JINGLE_COMPLETED) carry as
\* totalChunks the number of frames sent.
C13_FramesInOrder ==
  [][\A b \in BuzzerIDs :
        /\ streams'[b].state = "reading" =>
              /\ \A i \in DOMAIN streams'[b].frames :
                    /\ streams'[b].frames[i].chunkIndex = i - 1
                    /\ streams'[b].frames[i].bytes \in 1..ChunkSize
              /\ SumBytes(streams'[b].frames) + streams'[b].remaining
                    = JinglesTable[streams'[b].jingleId].fileSize
        /\ \A i \in DOMAIN sent' :
              sent'[i].buzzerID = b =>
                 /\ sent'[i].type = "chunk" => sent'[i].val = Len(streams[b].frames)
                 /\ sent'[i].type \in {"JINGLE_END", "JINGLE_COMPLETED"} =>
                       /\ sent'[i].val = Len(streams[b].frames)
                       /\ SumBytes(streams[b].frames)
                             = JinglesTable[streams[b].jingleId].fileSize]_vars

\* The whole file went out in three frames, the last one with what two full
\* chunks left over, and JINGLE_END said 3.
C13_Witness ==
  /\ last.op = "end"
  /\ \E i \in DOMAIN sent : sent[i].type = "JINGLE_END" /\ sent[i].val = 3
  /\ JingleFileSize - 2 * ChunkSize \in 1..ChunkSize

\* C14: once the transport a stream writes to is not open while part of the
\* file is still unread, no further binary frame and no JINGLE_END is sent for
\* that stream, and its next data event aborts the read.
C14_AbortedStreamSendsNothing ==
  [][\A b \in BuzzerIDs :
        (\/ streams[b].state = "destroyed"
         \/ /\ streams[b].state = "reading" /\ streams[b].remaining > 0
            /\ ws[streams[b].ws].readyState # "OPEN") =>
           /\ \A i \in DOMAIN sent' :
                 sent'[i].buzzerID = b => sent'[i].type \notin {"chunk", "JINGLE_END"}
           /\ (last'.op = "data" /\ last'.buzzerID = b) => streams'[b].state = "destroyed"]_vars

\* A data event found the transport closed and the read was aborted.
C14_Witness ==
  /\ last.op = "data"
  /\ streams[last.buzzerID].state = "destroyed"
  /\ sent = <<>>
  /\ last.buzzerID \in activeJingleStreams

\* C15: the pending-buzz list holds at most one entry with processed = false
\* per buzzerID.
C15_OneUnprocessedPerBuzzer ==
  \A b \in BuzzerIDs :
     Cardinality({i \in DOMAIN BuzzList :
                    BuzzList[i].buzzerID = b /\ ~BuzzList[i].processed}) <= 1

\* A buzzer that is neither excluded nor locked out buzzed again while its
\* earlier buzz was unprocessed, and was ignored.
C15_Witness ==
  /\ last.op = "ANSWER_BUZZER" /\ last.ret.ignored
  /\ ~game.buzzerLocked
  /\ last.buzzerID \notin game.currentQuestionExcluded
  /\ \E i \in DOMAIN BuzzList : BuzzList[i].buzzerID = last.buzzerID /\ ~BuzzList[i].processed

\* C16: while buzzerLocked is true, a current winner is set.
C16_LockedHasWinner ==
  game.buzzerLocked => game.currentQuestionWinner # NoBuzzer

\* The buzzers are locked on a second winner, after a reopen excluded the first.
C16_Witness ==
  /\ game.buzzerLocked
  /\ game.currentQuestionWinner # NoBuzzer
  /\ game.currentQuestionExcluded # {}
  /\ game.currentQuestionWinner \notin game.currentQuestionExcluded

\* C17: after a BUZZ_CORRECT that was handled without error, buzzerLocked is
\* false.
C17_CorrectClearsLock ==
  (last.op = "BUZZ_CORRECT" /\ ~last.ret.threw) => ~game.buzzerLocked

\* C18: a winner is elected no sooner than 200 ms after the earliest buzz
\* among the eligible unprocessed ones the evaluation looks at.
C18_WinnerAfterWindow ==
  [][WinnerElected =>
       \A i \in PendingIndices(game) :
          (\A j \in PendingIndices(game) : BuzzList[i].receivedAt <= BuzzList[j].receivedAt)
             => now >= BuzzList[i].receivedAt + EvalWindowMs]_vars

\* Every registered buzzer with an open transport was sent, by the step just
\* taken, exactly one frame: BUZZER_EXCLUDED when its buzzerID is excluded
\* after the step, BUZZER_UNLOCKED otherwise; and the buzzer the console named
\* is excluded after the step.
ReopenNotifiesAll ==
  /\ \A k \in DOMAIN buzzerClients :
        ws[buzzerClients[k].ws].readyState = "OPEN" =>
           /\ Cardinality({i \in DOMAIN sent' : sent'[i].to = buzzerClients[k].ws}) = 1
           /\ \A i \in DOMAIN sent' :
                 sent'[i].to = buzzerClients[k].ws =>
                    sent'[i].type = IF buzzerClients[k].id \in game'.currentQuestionExcluded
                                    THEN "BUZZER_EXCLUDED" ELSE "BUZZER_UNLOCKED"
  /\ last'.buzzerID \in game'.currentQuestionExcluded

BuzzAfterExclusion ==
  /\ last'.op = "ANSWER_BUZZER" /\ ~last'.ret.threw
  /\ game.winnerExcluded
  /\ last'.buzzerID \notin game.currentQuestionExcluded
  /\ ~AlreadyBuzzed(game, last'.buzzerID)

\* That buzz was accepted: it is the last entry of the list, unprocessed, and
\* a timer is pending for it.
BuzzAccepted ==
  /\ ~last'.ret.ignored
  /\ Len(game'.currentQuestionBuzzes) = Len(BuzzList) + 1
  /\ game'.currentQuestionBuzzes[Len(BuzzList) + 1].buzzerID = last'.buzzerID
  /\ ~game'.currentQuestionBuzzes[Len(BuzzList) + 1].processed
  /\ game'.buzzEvaluationTimer
  /\ timers' # <<>>
  /\ ~game.buzzEvaluationTimer =>
        /\ Len(timers') = Len(timers) + 1
        /\ timers'[Len(timers')].fireAt = now + EvalWindowMs

\* An accepted buzz is the last thing that happened, excludePlayer having been
\* applied to the current winner before it.
AcceptedAfterExclusion ==
  /\ last.op = "ANSWER_BUZZER" /\ ~last.ret.threw /\ ~last.ret.ignored
  /\ game.winnerExcluded

\* The last thing that happened is the election of a buzzer that is not
\* excluded, announced to the console with BUZZ_WINNER.
NewWinnerEmitted ==
  /\ last.op = "evaluateBuzzes" /\ last.ret.fired
  /\ last.buzzerID \notin game.currentQuestionExcluded
  /\ \E i \in DOMAIN sent : sent[i].type = "BUZZ_WINNER" /\ sent[i].buzzerID = last.buzzerID

\* The console stepped in: it dispatched a question or sent BUZZ_REOPEN.
ConsoleIntervened ==
  \/ last.op = "getCurrentQuestion" /\ last.ret.found
  \/ last.op = "BUZZ_REOPEN" /\ ~last.ret.threw

ConnectedBuzzerTransports ==
  {t \in Transports :
     /\ \E k \in DOMAIN buzzerClients : buzzerClients[k].ws = t
     /\ ws[t].readyState = "OPEN"}

C23_UnknownQuestionIsError ==
  [][(last'.op = "QUESTION_SEND" /\ last'.questionId \notin DOMAIN QuestionsTable) =>
       /\ \A i \in DOMAIN sent' :
             sent'[i].type = "ERROR" /\ sent'[i].to = angularClient
       /\ IsOpen(angularClient) => Len(sent') = 1
       /\ game' = game]_vars

\* C24: when an ANSWER_MCQ, ANSWER_BUZZER, BUZZ_CORRECT or BUZZ_REOPEN names a
\* game that does not exist, the console is sent an ERROR, no transport is
\* closed, and neither the games nor the registry change.
C24_MissingGameIsError ==
  [][(/\ last'.op \in {"ANSWER_MCQ", "ANSWER_BUZZER", "BUZZ_CORRECT", "BUZZ_REOPEN"}
      /\ GameId \notin activeGames) =>
       /\ \E i \in DOMAIN sent' :
             sent'[i].type = "ERROR" /\ sent'[i].to = angularClient
       /\ ws' = ws
       /\ UNCHANGED <<activeGames, game, buzzerClients, angularClient>>]_vars

\* The step just taken dispatched a question: getCurrentQuestion reset the
\* question state.
QuestionDispatched ==
  \/ last'.op = "getCurrentQuestion" /\ last'.ret.found
  \/ last'.op = "QUESTION_SEND" /\ game'.answeredSinceDispatch = {}
                                /\ game.answeredSinceDispatch # {}

\* No entry of the answers map was removed or overwritten by the step.
AnswersKept ==
  \A b \in BuzzerIDs :
     game.currentQuestionAnswers[b].present =>
        game'.currentQuestionAnswers[b] = game.currentQuestionAnswers[b]

\* The step recorded no answer of a buzzer for a question for which one of
\* its answers was recorded since the last dispatch.
NoSecondRecordedAnswer ==
  (last'.op = "ANSWER_MCQ" /\ written' # <<>>) =>
     <<last'.buzzerID, last'.questionId>> \notin game.answeredSinceDispatch

\* C25: between two question dispatches no entry of the answers map is
\* removed or overwritten, and no buzzerID gets a second recorded answer for
\* the same question.
C25_AnswersOnlyGrow ==
  [][(game.questionDispatched /\ ~QuestionDispatched) =>
        (AnswersKept /\ NoSecondRecordedAnswer)]_vars

\* C28: a recordAnswer that records an answer to a BUZZER-type question
\* returns isCorrect = true exactly when no answer to that question has been
\* recorded since the question was dispatched.
C28_FirstBuzzerAnswerIsCorrect ==
  [][(/\ game.questionDispatched
      /\ last'.op = "ANSWER_MCQ" /\ written' # <<>>
      /\ QuestionsTable[last'.questionId].type = "BUZZER") =>
       (last'.ret.isCorrect <=>
          ~\E b \in BuzzerIDs : <<b, last'.questionId>> \in game.answeredSinceDispatch)]_vars

\* C27: for every player of the game, correctAnswers is at most totalAnswers.
C27_CorrectAtMostTotal ==
  \A b \in BuzzerIDs :
     game.players[b].correctAnswers <= game.players[b].totalAnswers

\* A registered player has one right and one wrong answer behind it, the
\* last one a buzz the console just validated as correct.
C27_Witness ==
  /\ last.op = "BUZZ_CORRECT" /\ ~last.ret.threw
  /\ game.players[last.buzzerID].present
  /\ game.players[last.buzzerID].totalAnswers = 2
  /\ game.players[last.buzzerID].correctAnswers = 1
  /\ game.currentQuestionAnswers[last.buzzerID].present

\* C29: once a console is registered, the close of another transport leaves
\* it the registered console: the slot is cleared only by the close of the
\* registered console itself.
C29_ConsoleKeptUntilItsOwnClose ==
  [][(/\ last'.op = "close"
      /\ angularClient # NoWs
      /\ ws'[angularClient] = ws[angularClient]) =>
        angularClient' = angularClient]_vars

\* C26: every responseTime recordAnswer returns or stores lies in
\* [0, 120000], and every responseTime recordBuzz stores is at least 0.
C26_ResponseTimesInRange ==
  /\ \A b \in BuzzerIDs :
        game.currentQuestionAnswers[b].present =>
           game.currentQuestionAnswers[b].responseTime \in 0..MaxResponseTime
  /\ (last.op = "ANSWER_MCQ") => (last.ret.responseTime \in 0..MaxResponseTime)
  /\ \A i \in DOMAIN game.currentQuestionBuzzes :
        game.currentQuestionBuzzes[i].responseTime >= 0

\* The same bounds for every responseTime that is a number.
NumericResponseTimesInRange ==
  /\ \A b \in BuzzerIDs :
        (/\ game.currentQuestionAnswers[b].present
         /\ game.currentQuestionAnswers[b].responseTime # NaN) =>
           game.currentQuestionAnswers[b].responseTime \in 0..MaxResponseTime
  /\ \A i \in DOMAIN game.currentQuestionBuzzes :
        game.currentQuestionBuzzes[i].responseTime # NaN =>
           game.currentQuestionBuzzes[i].responseTime >= 0

\* A stored answer clamped to 120000 next to a stored buzz above 120000.
ClampedAnswerUnclampedBuzz ==
  /\ \E b \in BuzzerIDs :
        /\ game.currentQuestionAnswers[b].present
        /\ game.currentQuestionAnswers[b].responseTime = MaxResponseTime
  /\ \E i \in DOMAIN game.currentQuestionBuzzes :
        game.currentQuestionBuzzes[i].responseTime > MaxResponseTime

\* The identification timer of transport t fires in this step.
TimeoutFiredOn(t) ==
  /\ last'.op = "identificationTimeout"
  /\ ws[t].identificationTimeout # 0 /\ ws'[t].identificationTimeout = 0

\* A step that calls close(4001) on t found it unidentified, and is the
\* callback of its identification timer.
Close4001OnlyUnidentified(t) ==
  (ws'[t].closeCode = CloseIdentification /\ ws[t].closeCode # CloseIdentification) =>
     (TimeoutFiredOn(t) /\ ~ws[t].identified)

\* C21: the identification timer of a transport fires no earlier than 30 s
\* after its accept and closes it with code 4001 if it is still unidentified;
\* no transport that identified itself before is closed with code 4001; and
\* an open unidentified transport does not stay so for ever.
C21_IdentificationTimeout ==
  /\ [][\A t \in Transports :
          /\ TimeoutFiredOn(t) =>
                /\ now >= ws[t].acceptedAt + IdentificationTimeoutMs
                /\ IF ws[t].identified
                   THEN ws'[t].readyState = ws[t].readyState /\ ws'[t].closeCode = ws[t].closeCode
                   ELSE ws'[t].readyState = "CLOSING" /\ ws'[t].closeCode = CloseIdentification
          /\ Close4001OnlyUnidentified(t)]_vars
  /\ \A t \in Transports :
        (ws[t].readyState = "OPEN" /\ ~ws[t].identified)
           ~> (ws[t].identified \/ ws[t].readyState # "OPEN")

\* One transport is being closed with code 4001, 30 s or more after its accept,
\* while another one, marked as a buzzer in time, has seen its timer fire
\* and stays open.
C21_Witness ==
  /\ last.op = "identificationTimeout"
  /\ \E t \in Transports :
        /\ ws[t].readyState = "CLOSING" /\ ws[t].closeCode = CloseIdentification
        /\ now >= ws[t].acceptedAt + IdentificationTimeoutMs
  /\ \E t \in Transports :
        /\ ws[t].readyState = "OPEN" /\ ws[t].identified
        /\ ws[t].identificationTimeout = 0
        /\ ws[t].clientType = "buzzer" /\ ws[t].buzzerID = NoBuzzer
        /\ now >= ws[t].acceptedAt + IdentificationTimeoutMs

\* C30: at a heartbeat tick every client whose flag is false is terminated,
\* every other client has its flag cleared and, if open, is sent one ping; a
\* client that went through an earlier tick and sent no pong since is
\* terminated, and a client that sent a pong since the last tick, or meets its
\* first tick, is not.
C30_Heartbeat ==
  [][(last'.op = "heartbeat") =>
       \A t \in Clients :
          /\ ~ws[t].isAlive => ws'[t].terminated
          /\ ws[t].isAlive =>
                /\ ~ws'[t].isAlive
                /\ ws'[t].terminated = ws[t].terminated
                /\ ws'[t].readyState = ws[t].readyState
                /\ IsOpen(t) =>
                      Cardinality({i \in DOMAIN sent' :
                                     sent'[i].to = t /\ sent'[i].type = "ping"}) = 1
          /\ (ws[t].heartbeats >= 1 /\ ~ws[t].ponged) => ws'[t].terminated
          /\ (ws[t].heartbeats = 0 \/ ws[t].ponged) => ws'[t].terminated = ws[t].terminated]_vars

\* After a tick: one open client has gone through two ticks and is pinged
\* again, another one has just been terminated.
C30_Witness ==
  /\ last.op = "heartbeat"
  /\ \E t \in Transports :
        /\ ws[t].readyState = "OPEN" /\ ws[t].heartbeats = MaxHeartbeats
        /\ ~ws[t].terminated /\ ~ws[t].isAlive
        /\ \E i \in DOMAIN sent : sent[i].to = t /\ sent[i].type = "ping"
  /\ \E t \in Transports :
        /\ ws[t].terminated /\ ws[t].readyState = "CLOSING"
        /\ ws[t].heartbeats = MaxHeartbeats

\* C31: the buzzer registry holds at most the 10 buzzers announced as
\* maxBuzzers in CONNECTED.
C31_AtMostTenBuzzers == Len(buzzerClients) <= MaxBuzzersAnnounced

\* C32: the status of a game changes only from created to started and from
\* started to ended, and a startGame on a game that is not in status created
\* fails and leaves the game unchanged.
C32_StatusTransitions ==
  [][(GameId \in activeGames) =>
       /\ (game'.status # game.status) =>
             <<game.status, game'.status>> \in
                {<<"created", "started">>, <<"started", "ended">>}
       /\ (last'.op = "startGame" /\ game.status # "created") =>
             (last'.ret.threw /\ game' = game)]_vars

\* The step recorded an answer or a buzz under last'.buzzerID.
RecordedUnderBuzzerID ==
  \/ last'.op = "ANSWER_MCQ" /\ written' # <<>>
  \/ /\ last'.op = "ANSWER_BUZZER" /\ ~last'.ret.threw /\ ~last'.ret.ignored
     /\ Len(game'.currentQuestionBuzzes) > 0

\* C33: an answer or a buzz is recorded under a buzzerID only when its frame
\* came from the transport the registry maps that buzzerID to.
C33_OnlyRegisteredTransport ==
  [][RecordedUnderBuzzerID =>
       /\ Has(buzzerClients, last'.buzzerID)
       /\ Get(buzzerClients, last'.buzzerID).ws = last'.from]_vars

\* C34: a BUZZ_CORRECT handled right after a BUZZ_CORRECT for the same
\* game, question and buzzerID adds nothing to the player's score and does
\* not increment correctAnswers again.
C34_SecondBuzzCorrectAddsNothing ==
  [][(/\ last.op = "BUZZ_CORRECT" /\ ~last.ret.threw
      /\ last'.op = "BUZZ_CORRECT" /\ ~last'.ret.threw
      /\ last'.buzzerID = last.buzzerID /\ last'.questionId = last.questionId) =>
        /\ game'.players[last.buzzerID].score = game.players[last.buzzerID].score
        /\ game'.players[last.buzzerID].correctAnswers =
              game.players[last.buzzerID].correctAnswers]_vars

\* C35: a BUZZ_CORRECT or BUZZ_REOPEN that names a buzzerID other than the
\* current winner of the game leaves the score, correctAnswers and
\* totalAnswers of every player unchanged.
C35_OnlyWinnerIsScored ==
  [][(/\ last'.op \in {"BUZZ_CORRECT", "BUZZ_REOPEN"}
      /\ GameId \in activeGames
      /\ last'.buzzerID # game.currentQuestionWinner) =>
        game'.players = game.players]_vars

\* The entry that made the current winner win: its last one in the list.
WinningEntry ==
  LET idx == {i \in DOMAIN game.currentQuestionBuzzes :
                game.currentQuestionBuzzes[i].buzzerID = game.currentQuestionWinner}
  IN game.currentQuestionBuzzes[CHOOSE i \in idx : \A j \in idx : j <= i]

\* C36: the responseTime validateBuzz returns, stores and has reported in
\* BUZZ_VALIDATED for the current winner is the responseTime of the winning
\* buzz entry.
C36_ValidatedResponseTime ==
  [][(/\ last'.op \in {"BUZZ_CORRECT", "BUZZ_REOPEN"} /\ ~last'.ret.threw
      /\ game.currentQuestionWinner # NoBuzzer
      /\ last'.buzzerID = game.currentQuestionWinner) =>
        /\ last'.ret.responseTime = WinningEntry.responseTime
        /\ \A i \in DOMAIN written' : written'[i].responseTime = WinningEntry.responseTime
        /\ \A i \in DOMAIN sent' :
              sent'[i].type \in {"BUZZ_VALIDATED", "ANSWER_RESULT"} =>
                 sent'[i].val = WinningEntry.responseTime]_vars

\* C37: a recordBuzz call that is ignored appends no entry, arms no timer and
\* leaves the excluded set, the lock and the current winner unchanged; and a
\* buzz from a buzzerID that is excluded when the frame arrives is ignored.
C37_IgnoredBuzzChangesNothing ==
  [][(last'.op = "ANSWER_BUZZER" /\ GameId \in activeGames) =>
        /\ last'.ret.ignored =>
              /\ game'.currentQuestionBuzzes = game.currentQuestionBuzzes
              /\ timers' = timers
              /\ game'.currentQuestionExcluded = game.currentQuestionExcluded
              /\ game'.buzzerLocked = game.buzzerLocked
              /\ game'.currentQuestionWinner = game.currentQuestionWinner
        /\ last'.buzzerID \in game.currentQuestionExcluded => last'.ret.ignored]_vars

\* C38: whenever the buzzers are locked, every buzz entry that is not
\* processed belongs to an excluded buzzerID.
C38_NoEligibleBuzzUnderLock ==
  (GameId \in activeGames /\ game.buzzesDefined /\ game.buzzerLocked) =>
     \A i \in DOMAIN game.currentQuestionBuzzes :
        ~game.currentQuestionBuzzes[i].processed =>
           game.currentQuestionBuzzes[i].buzzerID \in game.currentQuestionExcluded

\* The timer has just elected a winner and locked the buzzers while the list
\* holds the unprocessed entry of an excluded buzzer.
C38_Witness ==
  /\ GameId \in activeGames /\ game.buzzesDefined /\ game.buzzerLocked
  /\ last.op = "evaluateBuzzes" /\ last.ret.fired
  /\ \E i \in DOMAIN game.currentQuestionBuzzes :
        /\ ~game.currentQuestionBuzzes[i].processed
        /\ game.currentQuestionBuzzes[i].buzzerID \in game.currentQuestionExcluded
  /\ \E i \in DOMAIN game.currentQuestionBuzzes :
        /\ game.currentQuestionBuzzes[i].processed
        /\ game.currentQuestionBuzzes[i].buzzerID = game.currentQuestionWinner

\* C39: the playerNumbers of the registered buzzers are pairwise distinct and
\* follow the order of registration: a buzzer registered later has the larger
\* playerNumber.
C39_PlayerNumbersFollowOrder ==
  \A i, j \in DOMAIN buzzerClients :
     i < j => buzzerClients[i].playerNumber < buzzerClients[j].playerNumber

\* The registered buzzers that are not excluded for the current question.
ConnectedNotExcluded(registry, g) ==
  {k \in DOMAIN registry : registry[k].id \notin g.currentQuestionExcluded}

\* C40: the remainingPlayers of a BUZZ_REOPENED is the number of registered
\* buzzers that are not excluded, and is never negative.
C40_RemainingPlayers ==
  [][last'.op = "BUZZ_REOPEN" =>
        \A i \in DOMAIN sent' :
           sent'[i].type = "BUZZ_REOPENED" =>
              /\ sent'[i].val = Cardinality(ConnectedNotExcluded(buzzerClients', game'))
              /\ sent'[i].val >= 0]_vars

====
